---- MODULE Spec2Model ----
(***************************************************************************)
(* Rate-limiting and audit-logging core of edurank-glow.                   *)
(*                                                                         *)
(*   checkRateLimit, logRateLimitRequest   supabase/functions/_shared/     *)
(*                                         rateLimit.ts (src/unnamed/      *)
(*                                         part_002)                       *)
(*   get_rate_limit_status, log_audit_event                                *)
(*                                         migration 20260122000000        *)
(*   request handler (check, 429 or process, log)                          *)
(*                                         integration example of          *)
(*                                         ISSUES_FIXED_SUMMARY.md         *)
(*                                                                         *)
(* Time is the millisecond clock of Date.getTime() and of the database's   *)
(* now(); every await of the TypeScript code is a step boundary.           *)
(***************************************************************************)
EXTENDS Integers, Sequences, FiniteSets

VARIABLES
    now,              \* the wall clock, in ms
    advances,         \* how many times the clock has been advanced
    limits,           \* the per-operation quota table handed to checkRateLimit
    rate_limit_logs,  \* table public.rate_limit_logs, in insertion order
    audit_logs,       \* table public.audit_logs, in insertion order
    hs,               \* the request handlers: position and locals of each
    calls,            \* history: every checkRateLimit call that has returned
    st,               \* reply of the get_rate_limit_status call of this step
    au                \* reply of the log_audit_event call of this step

vars == <<now, advances, limits, rate_limit_logs, audit_logs, hs, calls, st, au>>

----------------------------------------------------------------------------
(* Bounds of the model *)

MaxLimit == 2
MaxCalls == 3
MaxAdvances == 3
MaxAudit == 1
MaxRows == 2

----------------------------------------------------------------------------
(* Program constants *)

HourMs == 3600000
DayMs == 24 * HourMs
NULL_TS == -1

Users == {"A", "B"}
Operations == {"generate-notes", "find-video"}
Handlers == {"h1", "h2"}
\* auth.uid() of a caller: a user id, or NULL when the caller is not authenticated
NULL_UID == "NULL"
\* a UUID that is no row of auth.users
GhostUser == "ghost"
Outcomes == {"ok", "error", "throw"}
Deltas == {HourMs \div 2, DayMs - HourMs}

Configs == [limitsPerHour : 1..MaxLimit, limitsPerDay : 1..MaxLimit]

RateLimitConfig(u, op, lim) ==
    [operation |-> op, userId |-> u,
     limitsPerHour |-> lim[op].limitsPerHour, limitsPerDay |-> lim[op].limitsPerDay]

----------------------------------------------------------------------------
(* Window Counter: the two count queries of checkRateLimit *)

\* the hourly/daily filter without .eq('operation', ...)
MatchingAnyOperation(logs, u, op, cutoff) ==
    {i \in DOMAIN logs : /\ logs[i].user_id = u
                         /\ logs[i].created_at >= cutoff}

\* the count query without .gte('created_at', ...): every row of the pair counts
MatchingAllTime(logs, u, op, cutoff) ==
    {i \in DOMAIN logs : /\ logs[i].user_id = u
                         /\ logs[i].operation = op}

Matching(logs, u, op, cutoff) ==
    {i \in DOMAIN logs : /\ logs[i].user_id = u
                         /\ logs[i].operation = op
                         /\ logs[i].created_at >= cutoff}

CountGte(logs, u, op, cutoff) == Cardinality(Matching(logs, u, op, cutoff))

\* hourlyCount || 0
Used(count) == IF count = NULL_TS THEN 0 ELSE count

----------------------------------------------------------------------------
(* Rate Limit Evaluator: the results checkRateLimit can return *)

NoMessage == <<>>
FailOpenMessage == <<"Rate limit check failed (allowing request)">>
HourlyMessage(config) ==
    <<"Rate limit exceeded for ", config.operation, ". Max ", config.limitsPerHour,
      " requests per hour. Try again in an hour.">>
DailyMessage(config) ==
    <<"Daily limit exceeded for ", config.operation, ". Max ", config.limitsPerDay,
      " requests per day. Try again tomorrow.">>

\* the reset times computed from hourAgo and dayAgo: both equal the call time
ResultResetNow(allowed, remaining, t, message) ==
    [allowed |-> allowed, remaining |-> remaining,
     resetAtHour |-> (t - HourMs) + HourMs, resetAtDay |-> (t - DayMs) + DayMs,
     message |-> message]

Result(allowed, remaining, t, message) ==
    [allowed |-> allowed, remaining |-> remaining,
     resetAtHour |-> t + HourMs, resetAtDay |-> t + DayMs, message |-> message]

HourlyErrorResult(config, t) == Result(TRUE, config.limitsPerHour, t, FailOpenMessage)

\* the daily error branch failing closed
DailyErrorResultClosed(config, t) == Result(FALSE, 0, t, FailOpenMessage)

DailyErrorResult(config, t) == Result(TRUE, config.limitsPerDay, t, FailOpenMessage)

CatchResult(config, t) == Result(TRUE, config.limitsPerHour, t, NoMessage)

\* Decide with the hourly threshold off by one (">" for ">=")
DecideStrict(config, hourlyCount, dailyCount, t) ==
    LET hourlyUsed == Used(hourlyCount)
        dailyUsed == Used(dailyCount)
    IN  IF hourlyUsed > config.limitsPerHour
        THEN Result(FALSE, 0, t, HourlyMessage(config))
        ELSE IF dailyUsed >= config.limitsPerDay
        THEN Result(FALSE, 0, t, DailyMessage(config))
        ELSE Result(TRUE, config.limitsPerHour - hourlyUsed - 1, t, NoMessage)

\* Decide denying one request early ("hourlyUsed + 1 >=" for "hourlyUsed >=")
DecideEarly(config, hourlyCount, dailyCount, t) ==
    LET hourlyUsed == Used(hourlyCount)
        dailyUsed == Used(dailyCount)
    IN  IF hourlyUsed + 1 >= config.limitsPerHour
        THEN Result(FALSE, 0, t, HourlyMessage(config))
        ELSE IF dailyUsed >= config.limitsPerDay
        THEN Result(FALSE, 0, t, DailyMessage(config))
        ELSE Result(TRUE, config.limitsPerHour - hourlyUsed - 1, t, NoMessage)

\* Decide forgetting the request about to be logged (no "- 1" in remaining)
DecideNoMinusOne(config, hourlyCount, dailyCount, t) ==
    LET hourlyUsed == Used(hourlyCount)
        dailyUsed == Used(dailyCount)
    IN  IF hourlyUsed >= config.limitsPerHour
        THEN Result(FALSE, 0, t, HourlyMessage(config))
        ELSE IF dailyUsed >= config.limitsPerDay
        THEN Result(FALSE, 0, t, DailyMessage(config))
        ELSE Result(TRUE, config.limitsPerHour - hourlyUsed, t, NoMessage)

\* Decide with the daily threshold off by one (">" for ">=")
DecideDailyStrict(config, hourlyCount, dailyCount, t) ==
    LET hourlyUsed == Used(hourlyCount)
        dailyUsed == Used(dailyCount)
    IN  IF hourlyUsed >= config.limitsPerHour
        THEN Result(FALSE, 0, t, HourlyMessage(config))
        ELSE IF dailyUsed > config.limitsPerDay
        THEN Result(FALSE, 0, t, DailyMessage(config))
        ELSE Result(TRUE, config.limitsPerHour - hourlyUsed - 1, t, NoMessage)

\* Decide without the hourly comparison
DecideDailyOnly(config, hourlyCount, dailyCount, t) ==
    LET hourlyUsed == Used(hourlyCount)
        dailyUsed == Used(dailyCount)
    IN  IF dailyUsed >= config.limitsPerDay
        THEN Result(FALSE, 0, t, DailyMessage(config))
        ELSE Result(TRUE, config.limitsPerHour - hourlyUsed - 1, t, NoMessage)

\* Decide without the daily comparison
DecideHourlyOnly(config, hourlyCount, dailyCount, t) ==
    LET hourlyUsed == Used(hourlyCount)
    IN  IF hourlyUsed >= config.limitsPerHour
        THEN Result(FALSE, 0, t, HourlyMessage(config))
        ELSE Result(TRUE, config.limitsPerHour - hourlyUsed - 1, t, NoMessage)

Decide(config, hourlyCount, dailyCount, t) ==
    LET hourlyUsed == Used(hourlyCount)
        dailyUsed == Used(dailyCount)
    IN  IF hourlyUsed >= config.limitsPerHour
        THEN Result(FALSE, 0, t, HourlyMessage(config))
        ELSE IF dailyUsed >= config.limitsPerDay
        THEN Result(FALSE, 0, t, DailyMessage(config))
        ELSE Result(TRUE, config.limitsPerHour - hourlyUsed - 1, t, NoMessage)

----------------------------------------------------------------------------
(* The two database functions: st holds the get_rate_limit_status call in flight
   (between its statements) or the reply it gave in the current step, au the reply
   of the log_audit_event call of the current step; a reply is gone after any
   other step *)

NoStatus ==
    [uid |-> NULL_UID, p_user_id |-> NULL_UID, p_operation |-> "", at |-> 0,
     raised |-> FALSE, reads |-> 0,
     requests_this_hour |-> 0, requests_this_day |-> 0,
     hour_resets_at |-> NULL_TS, day_resets_at |-> NULL_TS]

NoAudit == [p_user_id |-> NULL_UID, insertFailed |-> FALSE, raised |-> FALSE,
            loggedLocally |-> FALSE]

\* a get_rate_limit_status call has passed its authorization check and has not run
\* both of its SELECTs yet
InFlight == st.p_user_id # NULL_UID /\ ~st.raised /\ st.reads < 2

\* a step of anything else leaves a call in flight as it is and drops a reply
StKept == st' = IF InFlight THEN st ELSE NoStatus

NoReply == StKept /\ au' = NoAudit

----------------------------------------------------------------------------
(* checkRateLimit, one step per await *)

NoConfig == [operation |-> "", userId |-> "", limitsPerHour |-> 0, limitsPerDay |-> 0]
NoResult ==
    [allowed |-> FALSE, remaining |-> 0, resetAtHour |-> NULL_TS,
     resetAtDay |-> NULL_TS, message |-> NoMessage]

Idle ==
    [pc |-> "idle", config |-> NoConfig, t |-> 0,
     hourlyCount |-> NULL_TS, dailyCount |-> NULL_TS,
     hourlyQueries |-> 0, dailyQueries |-> 0,
     fault |-> "none", result |-> NoResult, errors |-> <<>>,
     insert |-> "none", response |-> 0]

\* a handler that has responded: what remains are its response, the outcome of its
\* log call, what it wrote with console.error and the hourly count its check saw
Done(h, response, insert, errors) ==
    [Idle EXCEPT !.pc = "done", !.response = response, !.insert = insert, !.errors = errors,
                 !.hourlyCount = hs[h].hourlyCount]

InCheck(h) == hs[h].pc \in {"hourly", "daily"}

\* a catch block that rethrows
CheckCatchRethrow(config, t) == [raised |-> TRUE, result |-> CatchResult(config, t)]

\* the catch block of checkRateLimit: what the function does with a thrown error
CheckCatch(config, t) == [raised |-> FALSE, result |-> CatchResult(config, t)]

\* checkRateLimit as one function of the table, for the queries' outcomes, when no
\* row is written between its two queries
checkRateLimit(logs, config, t, hourlyOutcome, dailyOutcome) ==
    LET hourlyCount == CountGte(logs, config.userId, config.operation, t - HourMs)
        dailyCount == CountGte(logs, config.userId, config.operation, t - DayMs)
    IN  CASE hourlyOutcome = "throw" -> CheckCatch(config, t).result
          [] hourlyOutcome = "error" -> HourlyErrorResult(config, t)
          [] dailyOutcome = "throw" -> CheckCatch(config, t).result
          [] dailyOutcome = "error" -> DailyErrorResult(config, t)
          [] OTHER -> Decide(config, hourlyCount, dailyCount, t)

CallRecord(h, result) ==
    [userId |-> hs[h].config.userId, operation |-> hs[h].config.operation,
     at |-> hs[h].t, allowed |-> result.allowed]

\* checkRateLimit returns `result` to handler h
Return(h, result, fault, error, hq, dq) ==
    /\ hs' = [hs EXCEPT ![h].pc = "returned",
                        ![h].result = result,
                        ![h].fault = fault,
                        ![h].errors = IF error = "" THEN @ ELSE Append(@, error),
                        ![h].hourlyQueries = @ + hq,
                        ![h].dailyQueries = @ + dq]
    /\ calls' = Append(calls, CallRecord(h, result))

\* a query threw inside the try block
Thrown(h, hq, dq) ==
    LET c == CheckCatch(hs[h].config, hs[h].t)
    IN  IF c.raised
        THEN /\ hs' = [hs EXCEPT ![h].pc = "raised", ![h].fault = "thrown",
                                 ![h].hourlyQueries = @ + hq,
                                 ![h].dailyQueries = @ + dq]
             /\ calls' = calls
        ELSE Return(h, c.result, "thrown", "Unexpected error in rate limit check:", hq, dq)

Start(h, u, op) ==
    /\ hs[h].pc \in {"idle", "done"}
    /\ Len(calls) + Cardinality({k \in Handlers : InCheck(k)}) < MaxCalls
    /\ hs' = [hs EXCEPT ![h] = [Idle EXCEPT !.pc = "hourly",
                                            !.config = RateLimitConfig(u, op, limits),
                                            !.t = now]]
    /\ UNCHANGED <<now, advances, limits, rate_limit_logs, audit_logs, calls>>
    /\ NoReply

HourlyQuery(h, outcome) ==
    /\ hs[h].pc = "hourly"
    /\ LET config == hs[h].config
           hourAgo == hs[h].t - HourMs
       IN  CASE outcome = "ok" ->
                  /\ hs' = [hs EXCEPT ![h].pc = "daily",
                                      ![h].hourlyQueries = @ + 1,
                                      ![h].hourlyCount =
                                          CountGte(rate_limit_logs, config.userId,
                                                   config.operation, hourAgo)]
                  /\ calls' = calls
             [] outcome = "error" ->
                  Return(h, HourlyErrorResult(config, hs[h].t), "hourlyError",
                         "Error checking hourly rate limit:", 1, 0)
             [] outcome = "throw" -> Thrown(h, 1, 0)
    /\ UNCHANGED <<now, advances, limits, rate_limit_logs, audit_logs>>
    /\ NoReply

DailyQuery(h, outcome) ==
    /\ hs[h].pc = "daily"
    /\ LET config == hs[h].config
           dayAgo == hs[h].t - DayMs
           dailyCount == CountGte(rate_limit_logs, config.userId, config.operation, dayAgo)
       IN  CASE outcome = "ok" ->
                  /\ hs' = [hs EXCEPT ![h].pc = "returned",
                                      ![h].dailyQueries = @ + 1,
                                      ![h].dailyCount = dailyCount,
                                      ![h].result =
                                          Decide(config, hs[h].hourlyCount, dailyCount,
                                                 hs[h].t)]
                  /\ calls' = Append(calls, CallRecord(h, hs'[h].result))
             [] outcome = "error" ->
                  Return(h, DailyErrorResult(config, hs[h].t), "dailyError",
                         "Error checking daily rate limit:", 0, 1)
             [] outcome = "throw" -> Thrown(h, 0, 1)
    /\ UNCHANGED <<now, advances, limits, rate_limit_logs, audit_logs>>
    /\ NoReply

----------------------------------------------------------------------------
(* The request handler around checkRateLimit, and logRateLimitRequest *)

\* a catch block that logs and rethrows
LogCatchRethrow == [raised |-> TRUE, error |-> "Error logging rate limit request:"]

\* the catch block of logRateLimitRequest
LogCatch == [raised |-> FALSE, error |-> "Error logging rate limit request:"]

RateLimitLogRow(userId, operation, success, t) ==
    [user_id |-> userId, operation |-> operation, success |-> success, created_at |-> t]

\* a handler that logs the denied attempt (success = false) before answering 429
RejectLogged(h) ==
    /\ hs[h].pc = "returned"
    /\ ~hs[h].result.allowed
    /\ rate_limit_logs' =
           Append(rate_limit_logs,
                  RateLimitLogRow(hs[h].config.userId, hs[h].config.operation, FALSE, now))
    /\ hs' = [hs EXCEPT ![h] = Done(h, 429, "none", hs[h].errors)]
    /\ UNCHANGED <<now, advances, limits, audit_logs, calls>>
    /\ NoReply

\* if (!rateLimitResult.allowed) return 429
Reject(h) ==
    /\ hs[h].pc = "returned"
    /\ ~hs[h].result.allowed
    /\ hs' = [hs EXCEPT ![h] = Done(h, 429, "none", hs[h].errors)]
    /\ UNCHANGED <<now, advances, limits, rate_limit_logs, audit_logs, calls>>
    /\ NoReply

\* the gated operation ran; the handler now awaits logRateLimitRequest
Process(h) ==
    /\ hs[h].pc = "returned"
    /\ hs[h].result.allowed
    /\ hs' = [hs EXCEPT ![h].pc = "insert"]
    /\ UNCHANGED <<now, advances, limits, rate_limit_logs, audit_logs, calls>>
    /\ NoReply

\* a handler whose log call sits in a finally block: the row is written although
\* the gated operation failed
ProcessFailsLogged(h) ==
    /\ hs[h].pc = "returned"
    /\ hs[h].result.allowed
    /\ rate_limit_logs' =
           Append(rate_limit_logs,
                  RateLimitLogRow(hs[h].config.userId, hs[h].config.operation, TRUE, now))
    /\ hs' = [hs EXCEPT ![h] = Done(h, 500, "none", hs[h].errors)]
    /\ UNCHANGED <<now, advances, limits, audit_logs, calls>>
    /\ NoReply

\* the gated operation threw or the handler timed out: the log call is never reached
ProcessFails(h) ==
    /\ hs[h].pc = "returned"
    /\ hs[h].result.allowed
    /\ hs' = [hs EXCEPT ![h] = Done(h, 500, "none", hs[h].errors)]
    /\ UNCHANGED <<now, advances, limits, rate_limit_logs, audit_logs, calls>>
    /\ NoReply

\* logRateLimitRequest with .upsert() for .insert(): a row of the same pair is
\* overwritten
logRateLimitRequestUpsert(logs, userId, operation, success, t, outcome) ==
    LET same == {i \in DOMAIN logs : logs[i].user_id = userId /\ logs[i].operation = operation}
        row == RateLimitLogRow(userId, operation, success, t)
    IN  [logs |-> IF outcome # "ok" THEN logs
                  ELSE IF same = {} THEN Append(logs, row)
                  ELSE [logs EXCEPT ![CHOOSE i \in same : \A j \in same : i <= j] = row],
         raised |-> outcome = "throw" /\ LogCatch.raised,
         errors |-> IF outcome = "throw" /\ ~LogCatch.raised THEN <<LogCatch.error>> ELSE <<>>]

\* logRateLimitRequest: the table after the call, whether the call raised, and what
\* it wrote with console.error
logRateLimitRequest(logs, userId, operation, success, t, outcome) ==
    [logs |-> IF outcome = "ok"
              THEN Append(logs, RateLimitLogRow(userId, operation, success, t))
              ELSE logs,
     raised |-> outcome = "throw" /\ LogCatch.raised,
     errors |-> IF outcome = "throw" /\ ~LogCatch.raised THEN <<LogCatch.error>> ELSE <<>>]

\* await logRateLimitRequest(supabaseClient, userId, operation, true), then respond
LogInsert(h, outcome) ==
    /\ hs[h].pc = "insert"
    /\ LET r == logRateLimitRequest(rate_limit_logs, hs[h].config.userId,
                                    hs[h].config.operation, TRUE, now, outcome)
       IN  /\ rate_limit_logs' = r.logs
           /\ hs' = [hs EXCEPT ![h] =
                       Done(h, IF r.raised THEN 500 ELSE 200, outcome,
                            hs[h].errors \o r.errors)]
    /\ UNCHANGED <<now, advances, limits, audit_logs, calls>>
    /\ NoReply

\* logRateLimitRequest called on its own, by any caller of the core
LogRequest(u, op, success, outcome) ==
    /\ Len(rate_limit_logs) < MaxRows
    /\ rate_limit_logs' =
           logRateLimitRequest(rate_limit_logs, u, op, success, now, outcome).logs
    /\ UNCHANGED <<now, advances, limits, audit_logs, hs, calls>>
    /\ NoReply

----------------------------------------------------------------------------
(* The clock *)

Advance(d) ==
    /\ advances < MaxAdvances
    /\ now' = now + d
    /\ advances' = advances + 1
    /\ UNCHANGED <<limits, rate_limit_logs, audit_logs, hs, calls>>
    /\ NoReply

----------------------------------------------------------------------------
(* get_rate_limit_status (plpgsql, SECURITY DEFINER) *)

\* SQL's a != b: NULL when either side is NULL
SqlNe(a, b) == IF a = NULL_UID \/ b = NULL_UID THEN "null" ELSE IF a # b THEN "true" ELSE "false"

\* the function as it was before the authorization check was added
RaisesNever(p_user_id, uid) == FALSE

\* IF p_user_id != auth.uid() THEN RAISE EXCEPTION: taken only when the test is true
RaisesUnauthorized(p_user_id, uid) == SqlNe(p_user_id, uid) = "true"

\* the window filter with ">=" for ">": a row aged exactly one window still counts
MatchingGtInclusive(logs, u, op, cutoff) ==
    {i \in DOMAIN logs : /\ logs[i].user_id = u
                         /\ logs[i].operation = op
                         /\ logs[i].created_at >= cutoff}

MatchingGt(logs, u, op, cutoff) ==
    {i \in DOMAIN logs : /\ logs[i].user_id = u
                         /\ logs[i].operation = op
                         /\ logs[i].created_at > cutoff}

\* the reset time taken from the newest row of the window
MaxCreatedAt(logs, rows) ==
    IF rows = {} THEN NULL_TS
    ELSE LET i == CHOOSE k \in rows : \A j \in rows : logs[k].created_at >= logs[j].created_at
         IN  logs[i].created_at

\* MIN(created_at) over the rows, NULL over no row
MinCreatedAt(logs, rows) ==
    IF rows = {} THEN NULL_TS
    ELSE LET i == CHOOSE k \in rows : \A j \in rows : logs[k].created_at <= logs[j].created_at
         IN  logs[i].created_at

\* entry of the function: NOW() is the start time of the call's transaction, and
\* the authorization check raises or lets the call through
StatusBegin(uid, p_user_id, p_operation, t) ==
    [NoStatus EXCEPT !.uid = uid, !.p_user_id = p_user_id, !.p_operation = p_operation,
                     !.at = t, !.raised = RaisesUnauthorized(p_user_id, uid)]

\* the first SELECT, on the table as committed when the statement runs
StatusHour(s, logs) ==
    LET v_hour_ago == s.at - HourMs
        hourRows == MatchingGt(logs, s.p_user_id, s.p_operation, v_hour_ago)
        v_hour_count == Cardinality(hourRows)
    IN  [s EXCEPT !.reads = 1,
                  !.requests_this_hour = v_hour_count,
                  !.hour_resets_at = IF v_hour_count > 0
                                     THEN MinCreatedAt(logs, hourRows) + HourMs
                                     ELSE NULL_TS]

\* the second SELECT, on the table as committed when that statement runs, and the
\* RETURN QUERY
StatusDay(s, logs) ==
    LET v_day_ago == s.at - DayMs
        dayRows == MatchingGt(logs, s.p_user_id, s.p_operation, v_day_ago)
        v_day_count == Cardinality(dayRows)
    IN  [s EXCEPT !.reads = 2,
                  !.requests_this_day = v_day_count,
                  !.day_resets_at = IF v_day_count > 0
                                    THEN MinCreatedAt(logs, dayRows) + DayMs
                                    ELSE NULL_TS]

\* the reply of a call during which nothing is committed to the table
get_rate_limit_status(logs, uid, p_user_id, p_operation, t) ==
    LET s == StatusBegin(uid, p_user_id, p_operation, t)
    IN  IF s.raised THEN s ELSE StatusDay(StatusHour(s, logs), logs)

\* the call starts: one call is in flight at a time
GetStatus(uid, p_user_id, p_operation) ==
    /\ ~InFlight
    /\ st' = StatusBegin(uid, p_user_id, p_operation, now)
    /\ au' = NoAudit
    /\ UNCHANGED <<now, advances, limits, rate_limit_logs, audit_logs, hs, calls>>

GetStatusHour ==
    /\ InFlight
    /\ st.reads = 0
    /\ st' = StatusHour(st, rate_limit_logs)
    /\ au' = NoAudit
    /\ UNCHANGED <<now, advances, limits, rate_limit_logs, audit_logs, hs, calls>>

GetStatusDay ==
    /\ InFlight
    /\ st.reads = 1
    /\ st' = StatusDay(st, rate_limit_logs)
    /\ au' = NoAudit
    /\ UNCHANGED <<now, advances, limits, rate_limit_logs, audit_logs, hs, calls>>

----------------------------------------------------------------------------
(* log_audit_event (plpgsql, SECURITY DEFINER; no EXCEPTION block) *)

\* the INSERT fails on a storage fault or when user_id violates the foreign key
AuditInsertFails(p_user_id, storageFault) == storageFault \/ p_user_id \notin Users

log_audit_event(p_user_id, storageFault) ==
    LET failed == AuditInsertFails(p_user_id, storageFault)
    IN  [p_user_id |-> p_user_id, insertFailed |-> failed, raised |-> failed,
         loggedLocally |-> FALSE]

\* an audit event that is also counted as a request of its user
LogAuditEventCounted(p_user_id, action, storageFault) ==
    /\ Len(audit_logs) < MaxAudit
    /\ au' = log_audit_event(p_user_id, storageFault)
    /\ audit_logs' =
           IF au'.insertFailed THEN audit_logs
           ELSE Append(audit_logs,
                       [user_id |-> p_user_id, action |-> action,
                        resource_type |-> "notes", created_at |-> now])
    /\ rate_limit_logs' =
           IF au'.insertFailed THEN rate_limit_logs
           ELSE Append(rate_limit_logs, RateLimitLogRow(p_user_id, action, TRUE, now))
    /\ StKept
    /\ UNCHANGED <<now, advances, limits, hs, calls>>

LogAuditEvent(p_user_id, action, storageFault) ==
    /\ Len(audit_logs) < MaxAudit
    /\ au' = log_audit_event(p_user_id, storageFault)
    /\ audit_logs' =
           IF au'.insertFailed THEN audit_logs
           ELSE Append(audit_logs,
                       [user_id |-> p_user_id, action |-> action,
                        resource_type |-> "notes", created_at |-> now])
    /\ StKept
    /\ UNCHANGED <<now, advances, limits, rate_limit_logs, hs, calls>>

----------------------------------------------------------------------------
(* The system: concurrent handlers, faulty storage, status and audit calls *)

Init ==
    /\ now = 0
    /\ advances = 0
    /\ limits \in [Operations -> Configs]
    /\ rate_limit_logs = <<>>
    /\ audit_logs = <<>>
    /\ hs = [h \in Handlers |-> Idle]
    /\ calls = <<>>
    /\ st = NoStatus
    /\ au = NoAudit

Next ==
    \/ \E h \in Handlers, u \in Users, op \in Operations : Start(h, u, op)
    \/ \E h \in Handlers, o \in Outcomes : HourlyQuery(h, o)
    \/ \E h \in Handlers, o \in Outcomes : DailyQuery(h, o)
    \/ \E h \in Handlers : Reject(h)
    \/ \E h \in Handlers : Process(h)
    \/ \E h \in Handlers : ProcessFails(h)
    \/ \E h \in Handlers, o \in Outcomes : LogInsert(h, o)
    \/ \E u \in Users, op \in Operations, o \in Outcomes : LogRequest(u, op, TRUE, o)
    \/ \E d \in Deltas : Advance(d)
    \/ \E uid \in Users \cup {NULL_UID}, u \in Users, op \in Operations : GetStatus(uid, u, op)
    \/ GetStatusHour
    \/ GetStatusDay
    \/ \E u \in Users \cup {GhostUser}, f \in BOOLEAN : LogAuditEvent(u, "notes_generated", f)

Spec == Init /\ [][Next]_vars

----------------------------------------------------------------------------
(* Parts of the system, each a set of behaviours of Spec *)

U0 == "A"
O0 == "generate-notes"

\* one pair is in use: the quota of the other operation plays no part
InitOne == Init /\ limits["find-video"] = limits[O0]

\* one handler at a time for one (user, operation), storage never failing
NextSeq ==
    \/ Start("h1", U0, O0)
    \/ HourlyQuery("h1", "ok")
    \/ DailyQuery("h1", "ok")
    \/ Reject("h1")
    \/ Process("h1")
    \/ LogInsert("h1", "ok")
    \/ \E d \in Deltas : Advance(d)

SpecSeq == InitOne /\ [][NextSeq]_vars

\* one handler at a time for one (user, operation), every storage call may fail
NextFault ==
    \/ Start("h1", U0, O0)
    \/ \E o \in Outcomes : HourlyQuery("h1", o)
    \/ \E o \in Outcomes : DailyQuery("h1", o)
    \/ Reject("h1")
    \/ Process("h1")
    \/ ProcessFails("h1")
    \/ \E o \in Outcomes : LogInsert("h1", o)
    \/ \E d \in Deltas : Advance(d)

SpecFault == InitOne /\ [][NextFault]_vars

\* concurrent handlers for one (user, operation), storage never failing
NextRace ==
    \/ \E h \in Handlers : Start(h, U0, O0)
    \/ \E h \in Handlers : HourlyQuery(h, "ok")
    \/ \E h \in Handlers : DailyQuery(h, "ok")
    \/ \E h \in Handlers : Reject(h)
    \/ \E h \in Handlers : Process(h)
    \/ \E h \in Handlers : ProcessFails(h)
    \/ \E h \in Handlers : LogInsert(h, "ok")
    \/ Advance(HourMs \div 2)

SpecRace == InitOne /\ [][NextRace]_vars

\* the request log and the status function: two writers that differ in user and in
\* operation, status calls for the first pair by its owner, by the other user and by
\* an unauthenticated caller, each call one step per statement
InitDb == InitOne /\ limits[O0] = [limitsPerHour |-> 1, limitsPerDay |-> 1]

NextDb ==
    \/ \E o \in Outcomes : LogRequest(U0, O0, TRUE, o)
    \/ \E o \in Outcomes : LogRequest("B", "find-video", TRUE, o)
    \/ \E d \in Deltas : Advance(d)
    \/ \E uid \in Users \cup {NULL_UID} : GetStatus(uid, U0, O0)
    \/ GetStatusHour
    \/ GetStatusDay

SpecDb == InitDb /\ [][NextDb]_vars

\* the audit log beside the request log
NextAudit ==
    \/ \E o \in Outcomes : LogRequest(U0, O0, TRUE, o)
    \/ \E d \in Deltas : Advance(d)
    \/ \E u \in Users \cup {GhostUser}, f \in BOOLEAN : LogAuditEvent(u, "notes_generated", f)

SpecAudit == InitDb /\ [][NextAudit]_vars

\* every operation of the core side by side: one handler, a second writer of the
\* request log, status calls and audit events
NextCore ==
    \/ Start("h1", U0, O0)
    \/ HourlyQuery("h1", "ok")
    \/ DailyQuery("h1", "ok")
    \/ Reject("h1")
    \/ Process("h1")
    \/ LogInsert("h1", "ok")
    \/ \E o \in Outcomes : LogRequest("B", O0, TRUE, o)
    \/ Advance(HourMs \div 2)
    \/ GetStatus(U0, U0, O0)
    \/ GetStatusHour
    \/ GetStatusDay
    \/ \E u \in {U0, GhostUser} : LogAuditEvent(u, "notes_generated", FALSE)

SpecCore == InitDb /\ [][NextCore]_vars

----------------------------------------------------------------------------
(* C1: the N-th and the (N+1)-th call of one rolling hour (SpecSeq) *)

\* how many of the calls 1..j were allowed; under SpecSeq each of them has logged
\* one row before the next call starts, so these are the rows call j+1 can see
AllowedUpTo(j) == Cardinality({i \in 1..j : calls[i].allowed})

\* calls b..k are a run inside one rolling hour, and no row of the pair was logged
\* in the 24 hours before its first call
RunInOneHour(b, k) ==
    /\ b <= k
    /\ calls[k].at - calls[b].at <= HourMs
    /\ \A r \in 1..AllowedUpTo(b - 1) :
           rate_limit_logs[r].created_at < calls[b].at - DayMs

\* C1 as stated: in a run of sequential calls inside one rolling hour, for every
\* config with limitsPerHour = N, the N-th call is allowed and the (N+1)-th is denied.
C1_NthAllowedNextDenied ==
    \A b, k \in DOMAIN calls :
        RunInOneHour(b, k) =>
            LET N == limits[O0].limitsPerHour
            IN  /\ (k - b + 1 = N => calls[k].allowed)
                /\ (k - b + 1 = N + 1 => ~calls[k].allowed)

\* C1 as amended: the (N+1)-th call of such a run is denied, and the N-th call is
\* allowed exactly when N <= limitsPerDay (with limitsPerDay < N the daily limit
\* denies it).
C1_NthAllowedWithinDailyLimit ==
    \A b, k \in DOMAIN calls :
        RunInOneHour(b, k) =>
            LET N == limits[O0].limitsPerHour
                D == limits[O0].limitsPerDay
            IN  /\ (k - b + 1 = N => (calls[k].allowed <=> N <= D))
                /\ (k - b + 1 = N + 1 => ~calls[k].allowed)

\* a run of N+1 = 3 calls spanning exactly one hour: the second allowed, the third denied
C1_Witness ==
    /\ limits[O0] = [limitsPerHour |-> 2, limitsPerDay |-> 2]
    /\ Len(calls) = 3
    /\ RunInOneHour(1, 3)
    /\ calls[3].at - calls[1].at = HourMs
    /\ calls[2].allowed
    /\ ~calls[3].allowed

----------------------------------------------------------------------------
(* C2, C5, C6, C8, C9: one call under storage faults (SpecFault) *)

Returned(h) == hs[h].pc = "returned"

\* the rows of the call's pair inside its hourly window; under SpecFault no other
\* handler writes, so at "returned" this is what the table held during the check
HourlyBefore(h) ==
    CountGte(rate_limit_logs, hs[h].config.userId, hs[h].config.operation,
             hs[h].t - HourMs)

\* C2: whenever a window query of checkRateLimit returns an error or throws, the
\* result is allowed = true, whatever the table holds.
C2_FailOpen ==
    \A h \in Handlers :
        (Returned(h) /\ hs[h].fault \in {"hourlyError", "dailyError", "thrown"})
            => hs[h].result.allowed

\* the daily query fails for a pair whose hourly window is already at the limit
C2_Witness ==
    /\ Returned("h1")
    /\ hs["h1"].fault = "dailyError"
    /\ HourlyBefore("h1") >= hs["h1"].config.limitsPerHour
    /\ hs["h1"].result.allowed

\* C5 as stated: a denial has remaining = 0, and every allowance has
\* remaining = limitsPerHour - (hourly count before the call) - 1 >= 0.
C5_RemainingOnEveryAllowance ==
    \A h \in Handlers :
        Returned(h) =>
            /\ ~hs[h].result.allowed => hs[h].result.remaining = 0
            /\ hs[h].result.allowed =>
                   /\ hs[h].result.remaining =
                          hs[h].config.limitsPerHour - HourlyBefore(h) - 1
                   /\ hs[h].result.remaining >= 0

\* C5 as amended: a denial has remaining = 0; an allowance decided with both queries
\* answered has remaining = limitsPerHour - hourly count - 1; a fail-open allowance
\* has remaining = limitsPerHour (hourly error, exception) or limitsPerDay (daily
\* error); remaining is never negative.
C5_RemainingWhenCounted ==
    \A h \in Handlers :
        Returned(h) =>
            LET r == hs[h].result
                c == hs[h].config
            IN  /\ r.remaining >= 0
                /\ ~r.allowed => r.remaining = 0
                /\ (r.allowed /\ hs[h].fault = "none") =>
                       r.remaining = c.limitsPerHour - HourlyBefore(h) - 1
                /\ hs[h].fault \in {"hourlyError", "thrown"} => r.remaining = c.limitsPerHour
                /\ hs[h].fault = "dailyError" => r.remaining = c.limitsPerDay

\* an allowance with one row already in the hourly window: remaining = 2 - 1 - 1
C5_Witness ==
    /\ Returned("h1")
    /\ hs["h1"].fault = "none"
    /\ hs["h1"].result.allowed
    /\ hs["h1"].config.limitsPerHour = 2
    /\ HourlyBefore("h1") = 1
    /\ hs["h1"].result.remaining = 0

\* C6: in every execution of checkRateLimit whose hourly count is >= limitsPerHour,
\* no daily-window query is issued.
C6_NoDailyQueryWhenHourlyExceeded ==
    \A h \in Handlers :
        (Returned(h) /\ hs[h].hourlyCount # NULL_TS
                     /\ Used(hs[h].hourlyCount) >= hs[h].config.limitsPerHour)
            => hs[h].dailyQueries = 0

\* C8: checkRateLimit never raises to its caller and always hands back a
\* RateLimitResult, for every outcome of the two queries; a storage fault never
\* yields allowed = false.
C8_NeverRaises ==
    \A h \in Handlers :
        /\ hs[h].pc # "raised"
        /\ Returned(h) =>
               /\ hs[h].result.allowed \in BOOLEAN
               /\ hs[h].result.resetAtHour = hs[h].t + HourMs
               /\ hs[h].result.resetAtDay = hs[h].t + DayMs
               /\ hs[h].fault # "none" => hs[h].result.allowed

\* the hourly query answers and the daily query throws
C8_Witness ==
    /\ Returned("h1")
    /\ hs["h1"].fault = "thrown"
    /\ hs["h1"].hourlyQueries = 1
    /\ hs["h1"].dailyQueries = 1
    /\ hs["h1"].result.allowed

\* C9: logRateLimitRequest returns normally for every outcome of the insert, and the
\* handler's response is the one it gives when the insert succeeds.
C9_LogNeverThrows ==
    \A h \in Handlers :
        (hs[h].pc = "done" /\ hs[h].insert \in Outcomes) => hs[h].response = 200

\* the insert threw and the handler still answered 200
C9_Witness ==
    /\ hs["h1"].pc = "done"
    /\ hs["h1"].insert = "throw"
    /\ hs["h1"].response = 200
    /\ rate_limit_logs = <<>>

----------------------------------------------------------------------------
(* C7: two handlers racing on one pair (SpecRace) *)

\* C7 (the decision behind the race): a check that counted limitsPerHour - 1 rows in
\* the hour, and fewer than limitsPerDay in the day, is allowed whatever the other
\* handler is doing, so two checks that both count N-1 are both allowed.
C7_AllowedOnObservedCount ==
    \A h \in Handlers :
        (/\ hs[h].pc \in {"returned", "insert"}
         /\ hs[h].hourlyCount = hs[h].config.limitsPerHour - 1
         /\ hs[h].dailyCount # NULL_TS
         /\ hs[h].dailyCount < hs[h].config.limitsPerDay)
            => hs[h].result.allowed

\* C7 (the race): both handlers counted N-1 = 1, both answered 200 and logged, and
\* the trailing hour now holds N+1 = 3 rows
C7_Witness ==
    /\ limits[O0].limitsPerHour = 2
    /\ \A h \in Handlers :
           /\ hs[h].pc = "done"
           /\ hs[h].response = 200
           /\ hs[h].insert = "ok"
           /\ hs[h].hourlyCount = 1
    /\ CountGte(rate_limit_logs, U0, O0, now - HourMs) = 3

----------------------------------------------------------------------------
(* C3, C4: the status function and the counts of other pairs (SpecDb) *)

\* C3: get_rate_limit_status(p_user_id = A) called with authenticated identity B,
\* B different from A, raises, reads rate_limit_logs neither before nor after, and
\* hands back no count.
C3_StatusOfAnotherUserDenied ==
    (st.uid \in Users /\ st.p_user_id \in Users /\ st.uid # st.p_user_id)
        => /\ st.raised
           /\ st.reads = 0
           /\ st.requests_this_hour = 0
           /\ st.requests_this_day = 0
           /\ st.hour_resets_at = NULL_TS
           /\ st.day_resets_at = NULL_TS

\* B asks for the status of A, who has rows in the table
C3_Witness ==
    /\ st.uid = "B"
    /\ st.p_user_id = "A"
    /\ st.raised
    /\ \E i \in DOMAIN rate_limit_logs : rate_limit_logs[i].user_id = "A"

\* the rows of one (user, operation), in insertion order
OwnRows(logs, u, op) ==
    SelectSeq(logs, LAMBDA row : row.user_id = u /\ row.operation = op)

\* C4: checkRateLimit and get_rate_limit_status for (U, O) give the same result on
\* the table and on the table without the rows of every other pair, so two tables
\* that differ only in rows of other pairs give the same result.
C4_Isolation ==
    \A u \in Users, op \in Operations :
        LET own == OwnRows(rate_limit_logs, u, op)
            config(cfg) == [operation |-> op, userId |-> u,
                            limitsPerHour |-> cfg.limitsPerHour,
                            limitsPerDay |-> cfg.limitsPerDay]
        IN  /\ get_rate_limit_status(rate_limit_logs, u, u, op, now)
                   = get_rate_limit_status(own, u, u, op, now)
            /\ \A cfg \in Configs :
                   checkRateLimit(rate_limit_logs, config(cfg), now, "ok", "ok")
                       = checkRateLimit(own, config(cfg), now, "ok", "ok")

\* A is denied for generate-notes while A for find-video and B for generate-notes
\* are allowed, B has a row of its own for find-video, and the status of A for
\* generate-notes counts one row of the two
C4_Witness ==
    LET config(u, op) == [operation |-> op, userId |-> u,
                          limitsPerHour |-> 1, limitsPerDay |-> 1]
        check(u, op) == checkRateLimit(rate_limit_logs, config(u, op), now, "ok", "ok")
    IN  /\ ~check("A", "generate-notes").allowed
        /\ check("A", "find-video").allowed
        /\ check("B", "generate-notes").allowed
        /\ ~check("B", "find-video").allowed
        /\ Len(rate_limit_logs) = 2
        /\ st = get_rate_limit_status(rate_limit_logs, "A", "A", "generate-notes", now)
        /\ st.requests_this_day = 1

----------------------------------------------------------------------------
(* C10: a failing audit insert (SpecAudit) *)

\* C10: when the insert of an audit event fails, the recorder logs the failure
\* locally and returns without raising.
C10_AuditFailureSwallowed ==
    au.insertFailed => (~au.raised /\ au.loggedLocally)

----------------------------------------------------------------------------
(* C11, C17: what each operation of the core writes (SpecCore) *)

\* C11: across every step of the core (a step of checkRateLimit, logRateLimitRequest,
\* log_audit_event, get_rate_limit_status) each row of rate_limit_logs and of
\* audit_logs stays where it is with every field, created_at included, unchanged:
\* both tables only grow.
C11_AppendOnly ==
    [][/\ Len(rate_limit_logs') >= Len(rate_limit_logs)
       /\ \A i \in DOMAIN rate_limit_logs : rate_limit_logs'[i] = rate_limit_logs[i]
       /\ Len(audit_logs') >= Len(audit_logs)
       /\ \A i \in DOMAIN audit_logs : audit_logs'[i] = audit_logs[i]]_vars

\* after a check, two log calls of one pair at different times and an audit event,
\* a status call finds the first row of the pair as it was inserted
C11_Witness ==
    /\ Len(calls) >= 1
    /\ Len(audit_logs) = 1
    /\ \E i, j \in DOMAIN rate_limit_logs :
           /\ i < j
           /\ rate_limit_logs[i].user_id = rate_limit_logs[j].user_id
           /\ rate_limit_logs[i].operation = rate_limit_logs[j].operation
           /\ rate_limit_logs[i].created_at < rate_limit_logs[j].created_at
    /\ st.reads = 2

\* the step is one of checkRateLimit: a handler enters its check or gets the
\* answer of a count query
CheckStep ==
    \E h \in Handlers :
        /\ hs'[h] # hs[h]
        /\ \/ InCheck(h)
           \/ hs'[h].pc = "hourly"

\* the step is one of get_rate_limit_status: its entry or one of its SELECTs
StatusStep == st' # st /\ st' # NoStatus

\* the step is the insert of handler h's logRateLimitRequest call
InsertStep(h) == hs[h].pc = "insert" /\ hs'[h].pc = "done"

\* C17: a step of checkRateLimit and a get_rate_limit_status call leave both tables
\* unchanged; a step that changes rate_limit_logs appends one row, of the caller's
\* user and operation, and leaves audit_logs unchanged; an audit call changes at
\* most audit_logs, by one appended row, and never rate_limit_logs.
C17_DisjointWriteSets ==
    [][/\ (CheckStep \/ StatusStep) =>
              /\ rate_limit_logs' = rate_limit_logs
              /\ audit_logs' = audit_logs
       /\ rate_limit_logs' # rate_limit_logs =>
              /\ audit_logs' = audit_logs
              /\ \E u \in Users, op \in Operations :
                     rate_limit_logs' =
                         Append(rate_limit_logs, RateLimitLogRow(u, op, TRUE, now))
              /\ \A h \in Handlers :
                     InsertStep(h) =>
                         rate_limit_logs' =
                             Append(rate_limit_logs,
                                    RateLimitLogRow(hs[h].config.userId,
                                                    hs[h].config.operation, TRUE, now))
       /\ (au' # NoAudit \/ audit_logs' # audit_logs) =>
              /\ rate_limit_logs' = rate_limit_logs
              /\ au' # NoAudit
              /\ audit_logs' = audit_logs \/ Len(audit_logs') = Len(audit_logs) + 1]_vars

\* an audit event has just been recorded beside two request rows, one logged by the
\* handler for A and one logged for B
C17_Witness ==
    /\ au.p_user_id = U0
    /\ ~au.insertFailed
    /\ Len(audit_logs) = 1
    /\ Len(rate_limit_logs) = 2
    /\ \E i, j \in DOMAIN rate_limit_logs :
           rate_limit_logs[i].user_id = "A" /\ rate_limit_logs[j].user_id = "B"
    /\ hs["h1"].pc = "done"
    /\ hs["h1"].response = 200

----------------------------------------------------------------------------
(* C12: the rows a gated call leaves behind (SpecSeq) *)

\* C12: every gated call creates exactly one row of rate_limit_logs, after its
\* allow/deny decision, whether it was allowed or denied: while the handler is in
\* its check no row of the call exists yet, and once it has responded there are as
\* many rows as decided calls.
C12_OneEntryPerGatedCall ==
    /\ InCheck("h1") => Len(rate_limit_logs) = Len(calls)
    /\ hs["h1"].pc \in {"idle", "done"} => Len(rate_limit_logs) = Len(calls)

----------------------------------------------------------------------------
(* C13, C14: what the status function returns (SpecDb) *)

\* the rows of the reply's (user, operation) created after its call time minus w
InWindow(w) ==
    {i \in DOMAIN rate_limit_logs :
        /\ rate_limit_logs[i].user_id = st.p_user_id
        /\ rate_limit_logs[i].operation = st.p_operation
        /\ st.at - rate_limit_logs[i].created_at < w}

\* `resets` is null for an empty window, else the created_at of the oldest row of
\* the window plus w
ResetsWithOldest(resets, w) ==
    IF InWindow(w) = {}
    THEN resets = NULL_TS
    ELSE \E i \in InWindow(w) :
            /\ \A j \in InWindow(w) :
                   rate_limit_logs[i].created_at <= rate_limit_logs[j].created_at
            /\ resets = rate_limit_logs[i].created_at + w

\* C13: a status call that is let through returns, for the hour and for the day, the
\* number of rows of the exact (user, operation) created after now minus the window,
\* and as reset time the created_at of the oldest such row plus the window; a window
\* without rows has count 0 and a null reset time. Each window is read by its own
\* SELECT, on the table as it is when that SELECT runs.
C13_StatusCountsAndResets ==
    [][/\ (st.reads = 0 /\ st'.reads = 1) =>
              /\ st'.requests_this_hour = Cardinality(InWindow(HourMs))
              /\ ResetsWithOldest(st'.hour_resets_at, HourMs)
              /\ st'.requests_this_hour = 0 => st'.hour_resets_at = NULL_TS
       /\ (st.reads = 1 /\ st'.reads = 2) =>
              /\ st'.requests_this_hour = st.requests_this_hour
              /\ st'.hour_resets_at = st.hour_resets_at
              /\ st'.requests_this_day = Cardinality(InWindow(DayMs))
              /\ ResetsWithOldest(st'.day_resets_at, DayMs)
              /\ st'.requests_this_day = 0 => st'.day_resets_at = NULL_TS]_vars

\* two rows of the pair 23 hours apart: one in the hour, both in the day, the day
\* resetting 24 hours after the older one and the hour one hour after the newer one
C13_Witness ==
    /\ st.uid = "A"
    /\ st.p_user_id = "A"
    /\ st.reads = 2
    /\ st.requests_this_hour = 1
    /\ st.requests_this_day = 2
    /\ st.day_resets_at = DayMs
    /\ st.hour_resets_at = DayMs
    /\ st.at = DayMs - HourMs


\* the columns a status call hands back (or that it raised)
StatusColumns(s) ==
    <<s.raised, s.requests_this_hour, s.requests_this_day, s.hour_resets_at, s.day_resets_at>>

\* a call for (u, op) by its owner made in the state before a step and one made in
\* the state after it return the same
SameStatusAcrossStep ==
    \A u \in Users, op \in Operations :
        StatusColumns(get_rate_limit_status(rate_limit_logs, u, u, op, now))
            = StatusColumns(get_rate_limit_status(rate_limit_logs', u, u, op, now'))

\* no row goes from younger than a window to at least as old as it during the step
NoRowLeavesAWindow ==
    \A i \in DOMAIN rate_limit_logs, w \in {HourMs, DayMs} :
        (now - rate_limit_logs[i].created_at < w) <=> (now' - rate_limit_logs[i].created_at < w)

\* C14 as stated: two status calls for the same (user, operation) with no write to
\* rate_limit_logs between them return identical results.
C14_SameResultWithoutWrite ==
    [][rate_limit_logs' = rate_limit_logs => SameStatusAcrossStep]_vars

\* C14 as amended: two such calls return identical results when no write happens
\* from the start of the first to the end of the second and no row passes out of the
\* hour or the day window between them: a call during which no row of its window
\* was written returns the function of the table and of its start time, and that
\* function gives the same at two clock readings between which no row leaves a
\* window.
C14_SameResultWhileNoRowLeaves ==
    [][/\ (/\ rate_limit_logs' = rate_limit_logs
           /\ now' # now
           /\ NoRowLeavesAWindow) => SameStatusAcrossStep
       /\ (/\ st.reads = 1
           /\ st'.reads = 2
           /\ st = StatusHour(StatusBegin(st.uid, st.p_user_id, st.p_operation, st.at),
                              rate_limit_logs)) =>
              StatusColumns(st') =
                  StatusColumns(get_rate_limit_status(rate_limit_logs, st.uid, st.p_user_id,
                                                      st.p_operation, st.at))]_vars

\* a status call made exactly one hour after the only row of the pair was inserted:
\* the row has left the hour and is still in the day
C14_Witness ==
    /\ st.reads = 2
    /\ st.p_user_id = "A"
    /\ Len(rate_limit_logs) = 1
    /\ rate_limit_logs[1].user_id = "A"
    /\ rate_limit_logs[1].operation = st.p_operation
    /\ st.at - rate_limit_logs[1].created_at = HourMs
    /\ st.requests_this_hour = 0
    /\ st.requests_this_day = 1

----------------------------------------------------------------------------
(* C15, C16, C18, C19, C20: results and local error log under storage faults
   (SpecFault) *)

\* C15: every denial and every fail-open result (hourly query error, daily query
\* error, exception caught at the top level) carries a message, and the message of
\* a fail-open result says that the check failed.
C15_MessageOnDenialAndFailOpen ==
    \A h \in Handlers :
        Returned(h) =>
            /\ ~hs[h].result.allowed => hs[h].result.message # NoMessage
            /\ hs[h].fault # "none" => hs[h].result.message = FailOpenMessage

\* C16: whenever the insert of logRateLimitRequest fails, by a thrown exception or
\* by a returned error value, the failure is written to the local error log before
\* the call returns.
C16_InsertFailureLoggedLocally ==
    \A h \in Handlers :
        (hs[h].pc = "done" /\ hs[h].insert \in {"error", "throw"})
            => \E i \in DOMAIN hs[h].errors : hs[h].errors[i] = LogCatch.error

\* C18: whenever the hourly query answers with a count >= limitsPerHour, the result
\* is allowed = false with the hourly message, for every outcome of the daily query
\* (any count, an error value, an exception).
C18_HourlyPrecedence ==
    \A h \in Handlers :
        (/\ Returned(h)
         /\ hs[h].hourlyCount # NULL_TS
         /\ hs[h].hourlyCount >= hs[h].config.limitsPerHour)
            => /\ ~hs[h].result.allowed
               /\ hs[h].result.message = HourlyMessage(hs[h].config)

\* C19: when both queries answer, the result is allowed = false exactly when
\* hourlyCount >= limitsPerHour or dailyCount >= limitsPerDay (a count equal to its
\* limit denies), and a denial that only the daily count causes cites the daily
\* limit.
C19_DeniedIffAtALimit ==
    \A h \in Handlers :
        (Returned(h) /\ hs[h].fault = "none") =>
            LET c == hs[h].config
                r == hs[h].result
                hourlyAtLimit == hs[h].hourlyCount >= c.limitsPerHour
                dailyAtLimit == hs[h].dailyCount >= c.limitsPerDay
            IN  /\ hs[h].hourlyCount = HourlyBefore(h)
                /\ ~r.allowed <=> (hourlyAtLimit \/ dailyAtLimit)
                /\ (~hourlyAtLimit /\ dailyAtLimit) => r.message = DailyMessage(c)

\* the hour holds 1 row of 2 allowed and the day holds exactly limitsPerDay = 2
\* rows: denied, citing the daily limit
C19_Witness ==
    /\ Returned("h1")
    /\ hs["h1"].fault = "none"
    /\ hs["h1"].config.limitsPerHour = 2
    /\ hs["h1"].config.limitsPerDay = 2
    /\ hs["h1"].hourlyCount = 1
    /\ hs["h1"].dailyCount = 2
    /\ ~hs["h1"].result.allowed
    /\ hs["h1"].result.message = DailyMessage(hs["h1"].config)

\* C20: on every path of checkRateLimit (allow, hourly denial, daily denial, every
\* fail-open path) the result's remaining lies within the hourly budget:
\* 0 <= remaining <= limitsPerHour.
C20_RemainingWithinHourlyBudget ==
    \A h \in Handlers :
        Returned(h) =>
            /\ hs[h].result.remaining >= 0
            /\ hs[h].result.remaining <= hs[h].config.limitsPerHour

----------------------------------------------------------------------------
(* C21: the reset times of a result (SpecFault) *)

\* the rows the call of handler h counted in its window of length w; while h is at
\* "returned" under SpecFault nothing has been written since its check
CountedAtCheck(h, w) ==
    Matching(rate_limit_logs, hs[h].config.userId, hs[h].config.operation, hs[h].t - w)

\* the rows a check made now would count in its window of length w
CountedNow(h, w) ==
    Matching(rate_limit_logs, hs[h].config.userId, hs[h].config.operation, now - w)

\* C21: every result of a check made at time t has resetAtHour = t + 1h and
\* resetAtDay = t + 24h, and at every time strictly after resetAtHour (resetAtDay)
\* no row that the check counted in its hourly (daily) window is still counted.
C21_CountedRowsExpireByReset ==
    \A h \in Handlers :
        Returned(h) =>
            /\ hs[h].result.resetAtHour = hs[h].t + HourMs
            /\ hs[h].result.resetAtDay = hs[h].t + DayMs
            /\ now > hs[h].result.resetAtHour =>
                   CountedAtCheck(h, HourMs) \cap CountedNow(h, HourMs) = {}
            /\ now > hs[h].result.resetAtDay =>
                   CountedAtCheck(h, DayMs) \cap CountedNow(h, DayMs) = {}

\* a denial that counted one row in the hour, looked at 23 hours later: the row has
\* left the hour and is still in the day
C21_Witness ==
    /\ Returned("h1")
    /\ ~hs["h1"].result.allowed
    /\ Cardinality(CountedAtCheck("h1", HourMs)) = 1
    /\ now = hs["h1"].result.resetAtHour + (DayMs - 2 * HourMs)
    /\ CountedNow("h1", HourMs) = {}
    /\ Cardinality(CountedNow("h1", DayMs)) = 1

----------------------------------------------------------------------------
(* C22, C23: retries after a denial (SpecSeq) *)

\* the rows call j found in its window of length w: under SpecSeq the rows logged
\* by the allowed calls before it
RowsAtCall(j, w) ==
    {r \in 1..AllowedUpTo(j - 1) : rate_limit_logs[r].created_at >= calls[j].at - w}

\* call j is a retry of the denied call k, with nothing logged for the pair between
RetryOf(j, k) ==
    /\ k < j
    /\ ~calls[k].allowed
    /\ \A i \in (k + 1)..(j - 1) : ~calls[i].allowed

\* C22 as stated: a retry made strictly after the resetAtHour of a denial, with no
\* row logged for the pair in between and no storage error, is allowed.
C22_RetryAfterResetAllowed ==
    \A k, j \in DOMAIN calls :
        (RetryOf(j, k) /\ calls[j].at > calls[k].at + HourMs) => calls[j].allowed

\* C22 as amended: such a retry is never denied by the hourly limit; it is allowed
\* exactly when the rows of the pair in the 24 hours before the retry are fewer than
\* limitsPerDay, and a retry strictly after resetAtDay is allowed.
C22_RetryAfterResetWithinDailyLimit ==
    \A k, j \in DOMAIN calls :
        (RetryOf(j, k) /\ calls[j].at > calls[k].at + HourMs) =>
            /\ RowsAtCall(j, HourMs) = {}
            /\ calls[j].allowed <=>
                   Cardinality(RowsAtCall(j, DayMs)) < limits[O0].limitsPerDay
            /\ calls[j].at > calls[k].at + DayMs => calls[j].allowed

\* limits 1 per hour, 2 per day: allowed, denied in the same hour, and allowed again
\* 23 hours later with the first row still in the day
C22_Witness ==
    /\ limits[O0] = [limitsPerHour |-> 1, limitsPerDay |-> 2]
    /\ Len(calls) = 3
    /\ calls[1].allowed
    /\ RetryOf(3, 2)
    /\ calls[3].at = calls[2].at + (DayMs - HourMs)
    /\ Cardinality(RowsAtCall(3, DayMs)) = 1
    /\ calls[3].allowed


\* C23: a denied call adds no row, so whether a retry is allowed depends only on the
\* rows logged by allowed calls and on the time of the retry, not on how many
\* attempts were denied before it; and a retry is allowed at the latest once 24
\* hours have passed since the last logged row.
C23_DeniedAttemptsDoNotPostpone ==
    /\ hs["h1"].pc \in {"idle", "done"} => Len(rate_limit_logs) = AllowedUpTo(Len(calls))
    /\ \A j \in DOMAIN calls :
           /\ calls[j].allowed <=>
                  /\ Cardinality(RowsAtCall(j, HourMs)) < limits[O0].limitsPerHour
                  /\ Cardinality(RowsAtCall(j, DayMs)) < limits[O0].limitsPerDay
           /\ (\A r \in 1..AllowedUpTo(j - 1) :
                   calls[j].at > rate_limit_logs[r].created_at + DayMs) => calls[j].allowed

\* limits 1 per hour and 1 per day: allowed, denied, and after more than 24 hours
\* allowed again, with no row left by the denied attempt
C23_Witness ==
    /\ limits[O0] = [limitsPerHour |-> 1, limitsPerDay |-> 1]
    /\ hs["h1"].pc = "done"
    /\ Len(calls) = 3
    /\ calls[1].allowed
    /\ ~calls[2].allowed
    /\ calls[3].allowed
    /\ calls[3].at > calls[1].at + DayMs
    /\ Len(rate_limit_logs) = 2

----------------------------------------------------------------------------
(* C24, C25: concurrent handlers that may fail before logging (SpecRace) *)

AllowedDecisions == {i \in DOMAIN calls : calls[i].allowed}

\* handler h gives up between its check and its log call
TimesOut(h) == hs[h].pc = "returned" /\ hs'[h].pc = "done" /\ hs'[h].response = 500

\* C24: after every step the rows of the pair are at most as many as the
\* allowed = true decisions returned for it, and a handler that fails or times out
\* between the check and the log leaves rate_limit_logs unchanged.
C24_UnderCountOnly ==
    [][/\ Len(rate_limit_logs') <= Cardinality({i \in DOMAIN calls' : calls'[i].allowed})
       /\ \A h \in Handlers : TimesOut(h) => rate_limit_logs' = rate_limit_logs]_vars

\* two allowed decisions, one handler failed before its log call: one row
C24_Witness ==
    /\ Cardinality(AllowedDecisions) = 2
    /\ hs["h1"].pc = "done"
    /\ hs["h1"].response = 500
    /\ hs["h2"].pc = "done"
    /\ hs["h2"].response = 200
    /\ Len(rate_limit_logs) = 1

\* the rows of the pair in the window of length w that ends at time e
RowsInWindowEnding(e, w) ==
    {r \in DOMAIN rate_limit_logs :
        /\ rate_limit_logs[r].user_id = U0
        /\ rate_limit_logs[r].operation = O0
        /\ rate_limit_logs[r].created_at >= e - w
        /\ rate_limit_logs[r].created_at <= e}

\* now and every time at which a row was written
WindowEnds == {now} \cup {rate_limit_logs[r].created_at : r \in DOMAIN rate_limit_logs}

\* C25: with K handlers running check-then-log concurrently for one pair,
\* limitsPerHour = N <= limitsPerDay and no storage error, no trailing one-hour
\* window ever holds more than N + K - 1 rows.
C25_OvershootBounded ==
    limits[O0].limitsPerHour <= limits[O0].limitsPerDay =>
        \A e \in WindowEnds :
            Cardinality(RowsInWindowEnding(e, HourMs))
                <= limits[O0].limitsPerHour + Cardinality(Handlers) - 1

\* N = 1 and K = 2: both handlers were allowed on an empty hour and both logged,
\* and the third check was denied
C25_Witness ==
    /\ limits[O0].limitsPerHour = 1
    /\ Cardinality(RowsInWindowEnding(now, HourMs)) = 2
    /\ Len(calls) = 3
    /\ calls[1].allowed
    /\ calls[2].allowed
    /\ ~calls[3].allowed

----------------------------------------------------------------------------
(* C27, C29: one handler at a time (SpecSeq) *)

\* C27: with one handler at a time doing check-then-log, logging only when allowed,
\* and no storage error, no trailing one-hour window holds more than limitsPerHour
\* rows of the pair and no trailing 24-hour window more than limitsPerDay, also when
\* the row is written later than the check was made.
C27_SequentialEnforcement ==
    \A e \in WindowEnds :
        /\ Cardinality(RowsInWindowEnding(e, HourMs)) <= limits[O0].limitsPerHour
        /\ Cardinality(RowsInWindowEnding(e, DayMs)) <= limits[O0].limitsPerDay

\* the second call was checked half an hour before its row was written, and the
\* hour now holds exactly limitsPerHour = 2 rows
C27_Witness ==
    /\ limits[O0] = [limitsPerHour |-> 2, limitsPerDay |-> 2]
    /\ Len(calls) = 2
    /\ Len(rate_limit_logs) = 2
    /\ rate_limit_logs[2].created_at = calls[2].at + (HourMs \div 2)
    /\ Cardinality(RowsInWindowEnding(now, HourMs)) = 2

\* handler h logs the call it was allowed with remaining > 0, no query having failed
LogsWithRemaining(h) ==
    /\ InsertStep(h)
    /\ rate_limit_logs' # rate_limit_logs
    /\ hs[h].fault = "none"
    /\ hs[h].result.allowed
    /\ hs[h].result.remaining > 0

\* the check that immediately follows the step, for the pair of handler h
NextCheck(h) == checkRateLimit(rate_limit_logs', hs[h].config, now', "ok", "ok")

\* C29 as stated: when a call is allowed with remaining > 0 without storage error
\* and is logged, the check for the same pair that immediately follows is allowed.
C29_RemainingIsAPromise ==
    [][\A h \in Handlers : LogsWithRemaining(h) => NextCheck(h).allowed]_vars

\* C29 as amended: that check is never denied by the hourly limit, and it is allowed
\* exactly when the rows of the pair in the last 24 hours, the row just logged
\* included, are fewer than limitsPerDay.
C29_RemainingWithinDailyLimit ==
    [][\A h \in Handlers :
           LogsWithRemaining(h) =>
               /\ NextCheck(h).message # HourlyMessage(hs[h].config)
               /\ NextCheck(h).allowed <=>
                      CountGte(rate_limit_logs', hs[h].config.userId,
                               hs[h].config.operation, now' - DayMs)
                          < hs[h].config.limitsPerDay]_vars

\* limits 2 and 2: the first call was allowed with remaining 1 and logged, and the
\* call made right after it is allowed with remaining 0
C29_Witness ==
    /\ limits[O0] = [limitsPerHour |-> 2, limitsPerDay |-> 2]
    /\ Len(calls) = 2
    /\ calls[1].allowed
    /\ Returned("h1")
    /\ hs["h1"].t = rate_limit_logs[1].created_at
    /\ hs["h1"].hourlyCount = 1
    /\ hs["h1"].result.allowed
    /\ hs["h1"].result.remaining = 0

----------------------------------------------------------------------------
(* C26, C28, C30: the status function beside the evaluator (SpecDb) *)

\* C26: a get_rate_limit_status call with no authenticated identity (auth.uid() is
\* NULL) is rejected as unauthorized for every p_user_id and reads no row.
C26_NullIdentityRejected ==
    (st.p_user_id \in Users /\ st.uid = NULL_UID) => (st.raised /\ st.reads = 0)

\* C28: on the same table, for the same (user, operation) and the same instant, the
\* hourly and daily counts of checkRateLimit equal requests_this_hour and
\* requests_this_day of get_rate_limit_status, also when a row's created_at is
\* exactly now - 1h or now - 24h.
C28_EvaluatorAndStatusAgree ==
    \A u \in Users, op \in Operations :
        LET s == get_rate_limit_status(rate_limit_logs, u, u, op, now)
        IN  /\ CountGte(rate_limit_logs, u, op, now - HourMs) = s.requests_this_hour
            /\ CountGte(rate_limit_logs, u, op, now - DayMs) = s.requests_this_day

\* in a reply the hourly count is at most the daily one, a non-null hourly reset
\* time comes with a non-null daily one, and each non-null reset time is strictly
\* after the call's now
StatusCountsOrdered ==
    /\ st.requests_this_hour <= st.requests_this_day
    /\ st.hour_resets_at # NULL_TS => st.day_resets_at # NULL_TS
    /\ st.hour_resets_at # NULL_TS => st.at < st.hour_resets_at
    /\ st.day_resets_at # NULL_TS => st.at < st.day_resets_at

\* in a reply each non-null reset time is at most the call's now plus its window
StatusResetsBounded ==
    /\ st.hour_resets_at # NULL_TS => st.hour_resets_at <= st.at + HourMs
    /\ st.day_resets_at # NULL_TS => st.day_resets_at <= st.at + DayMs

\* no row of the asked pair is stamped later than the call's now
NoRowAfterCallStart ==
    \A i \in DOMAIN rate_limit_logs :
        (/\ rate_limit_logs[i].user_id = st.p_user_id
         /\ rate_limit_logs[i].operation = st.p_operation) =>
            rate_limit_logs[i].created_at <= st.at

\* C30 as stated: in every reply requests_this_hour <= requests_this_day, a non-null
\* hour_resets_at implies a non-null day_resets_at, each non-null reset time is
\* strictly after now and at most now + its window, and hour_resets_at <=
\* day_resets_at whenever both are non-null.
C30_StatusResetsOrdered ==
    st.reads = 2 =>
        /\ StatusCountsOrdered
        /\ StatusResetsBounded
        /\ (st.hour_resets_at # NULL_TS /\ st.day_resets_at # NULL_TS) =>
               st.hour_resets_at <= st.day_resets_at

\* C30 as amended: in every reply requests_this_hour <= requests_this_day, a non-null
\* hour_resets_at implies a non-null day_resets_at, each non-null reset time is
\* strictly after now, and hour_resets_at is at most 23 hours earlier than
\* day_resets_at; when no row of the pair is stamped later than the call's now, each
\* reset time is also at most now + its window and hour_resets_at is later than
\* day_resets_at by less than one hour.
C30_StatusResetsWithinWindows ==
    st.reads = 2 =>
        /\ StatusCountsOrdered
        /\ (st.hour_resets_at # NULL_TS /\ st.day_resets_at # NULL_TS) =>
               st.day_resets_at - (DayMs - HourMs) <= st.hour_resets_at
        /\ NoRowAfterCallStart =>
               /\ StatusResetsBounded
               /\ (st.hour_resets_at # NULL_TS /\ st.day_resets_at # NULL_TS) =>
                      st.hour_resets_at < st.day_resets_at + HourMs

\* rows written at 0 and at 23.5h, the call made at 23.5h: the day resets at 24h and
\* the hour at 24.5h
C30_Witness ==
    /\ st.reads = 2
    /\ st.requests_this_hour = 1
    /\ st.requests_this_day = 2
    /\ st.day_resets_at = DayMs
    /\ st.hour_resets_at = DayMs + (HourMs \div 2)

====
